---- MODULE Spec2Model ----
(***************************************************************************)
(* GitHub -> Discord bridge (main.py).  One dispatch cycle takes an event  *)
(* kind and a JSON payload, formats a message, resolves the webhook URL    *)
(* from the process environment and POSTs the message.  Two entry points:  *)
(* the Flask handler POST /webhook and the one-shot GitHub-Actions branch  *)
(* of __main__.                                                            *)
(*                                                                         *)
(* Python values are modelled as follows.  A str is a sequence of pieces   *)
(* (TLA+ strings) so that formatting, replace(), lower() and join() are    *)
(* computed.  A JSON value that the code reads with .get() is "absent",    *)
(* "nonmap" (null or any other non-dict value, on which .get raises) or    *)
(* present.  A Python call returns a record whose field raised tells       *)
(* whether an exception left the call.                                     *)
(***************************************************************************)
EXTENDS Integers, Sequences, FiniteSets, TLC

VARIABLES env, pc, mode, req, res, fin, fout

vars == <<env, pc, mode, req, res, fin, fout>>

----------------------------------------------------------------------------
(* Bounds of the model *)

\* a payload differs from the well-formed payload of its kind in at most
\* this many fields
MaxDeviations == 2
\* longest commit list
MaxCommits == 2
\* longest label list of an issue
MaxLabels == 2
\* longest labels_include list of a filter
MaxFilterLabels == 1

----------------------------------------------------------------------------
(* Program constants *)

PR_BODY_CAP == 500
ISSUE_BODY_CAP == 500
RELEASE_BODY_CAP == 1000

WEBHOOK_CONFIG ==
  [dev |-> "DISCORD_WEBHOOK_DEV",
   alerts |-> "DISCORD_WEBHOOK_ALERTS",
   announcements |-> "DISCORD_WEBHOOK_ANNOUNCEMENTS"]

\* the rule set the tests install as main.CONFIG
CONFIG ==
  << [name |-> "Test PR", event |-> "pull_request",
      filters |-> [keys |-> {"action", "is_draft"}, action |-> "opened",
                   is_draft |-> FALSE, labels_include |-> << >>],
      webhook_env |-> "TEST_WEBHOOK_1", format |-> "pr_detailed"],
     [name |-> "Test Issue", event |-> "issues",
      filters |-> [keys |-> {"labels_include"}, action |-> "absent",
                   is_draft |-> FALSE, labels_include |-> << <<"b", "u", "g">> >>],
      webhook_env |-> "TEST_WEBHOOK_2", format |-> "issue_priority"] >>

\* the environment the tests patch in
TestEnviron ==
  [TEST_WEBHOOK_1 |-> <<"http://webhook1">>, TEST_WEBHOOK_2 |-> <<"http://webhook2">>]

----------------------------------------------------------------------------
(* Python values *)

\* None, and the text f"{None}" it formats to
None == <<"None">>



EnvNames ==
  {"DISCORD_WEBHOOK_DEV", "DISCORD_WEBHOOK_ALERTS", "DISCORD_WEBHOOK_ANNOUNCEMENTS",
   "TEST_WEBHOOK_1", "TEST_WEBHOOK_2"}

\* the URL an environment variable holds when it is set and not empty
UrlOf(name) == <<"https://discord/", name>>

\* os.environ.get(name, default) with a fallback URL
environ_get_default(e, name) == IF e[name] = None THEN <<"https://discord/default">> ELSE e[name]

\* os.environ.get(name): None when the variable is unset
environ_get(e, name) == e[name]

\* truth value of a str-or-None
Truthy(s) == s # None /\ s # << >>

Min(a, b) == IF a < b THEN a ELSE b

\* value[:cap] + "..." if value and len(value) > cap else value, on a text
\* given by its length (0 stands for None and for "")
Truncate(len, cap) ==
  IF len > 0 /\ len > cap
  THEN [len |-> Min(len, cap) + Len(<<".", ".", ".">>), cut |-> TRUE]
  ELSE [len |-> len, cut |-> FALSE]

\* str.title() on the action names
Title(action) ==
  CASE action = "opened" -> "Opened"
    [] action = "closed" -> "Closed"
    [] action = "absent" -> "Unknown"
    [] OTHER -> action

\* str.replace(old, "") on a sequence of pieces
RECURSIVE Replace(_, _)
Replace(s, old) ==
  IF s = << >> THEN << >>
  ELSE IF Head(s) = old THEN Replace(Tail(s), old)
  ELSE <<Head(s)>> \o Replace(Tail(s), old)

\* ", ".join(names)
RECURSIVE Join(_)
Join(names) ==
  IF names = << >> THEN << >>
  ELSE IF Len(names) = 1 THEN Head(names)
  ELSE Head(names) \o <<", ">> \o Join(Tail(names))

----------------------------------------------------------------------------
(* Payloads *)

EventKinds == {"ping", "pull_request", "push", "issues", "release", "star"}

Bug == <<"b", "u", "g">>
BugUpper == <<"B", "u", "g">>
Feature == <<"f">>

\* a label entry: its name, or NoName for an entry without the key "name"
NoName == <<"<no name>">>
LabelEntries == {NoName, Bug, BugUpper, Feature}

\* a commit entry: "ok" (a map with a message), "nonmap" (null), "badmsg"
\* (a map whose message is null)
CommitEntries == {"ok", "nonmap", "badmsg"}

SeqsUpTo(S, n) == UNION {[1..k -> S] : k \in 0..n}

Refs == {<<"refs/heads/", "main">>, <<"refs/heads/", "dev">>, <<"main">>, << >>}

Opt3 == {"absent", "nonmap", "map"}
Flag3 == {"absent", "true", "false"}

\* a map that carries none of the keys the code reads
Blank ==
  [shape |-> "map", action |-> "absent", repository |-> "absent", sender |-> "absent",
   pull_request |-> "absent", pr_draft |-> "absent", pr_title |-> "absent",
   pr_body |-> 0, pr_head |-> "absent", pr_base |-> "absent",
   ref_kind |-> "absent", ref |-> << >>, commits_kind |-> "absent", commits |-> << >>,
   issue |-> "absent", labels_kind |-> "absent", labels |-> << >>, issue_pr |-> FALSE,
   issue_title |-> "absent", issue_body |-> 0,
   release |-> "absent", rel_draft |-> "absent", rel_tag |-> "absent",
   rel_prerelease |-> "absent", rel_name |-> "absent", rel_body |-> 0]

\* the well-formed payload of each kind
Canonical(kind) ==
  CASE kind = "pull_request" ->
         [Blank EXCEPT !.action = "opened", !.repository = "named", !.sender = "login",
                       !.pull_request = "map", !.pr_draft = "false",
                       !.pr_title = "present", !.pr_body = PR_BODY_CAP,
                       !.pr_head = "map", !.pr_base = "map"]
    [] kind = "push" ->
         [Blank EXCEPT !.repository = "named", !.sender = "login",
                       !.ref_kind = "str", !.ref = <<"refs/heads/", "main">>,
                       !.commits_kind = "list", !.commits = <<"ok">>]
    [] kind = "issues" ->
         [Blank EXCEPT !.action = "opened", !.repository = "named", !.sender = "login",
                       !.issue = "map", !.labels_kind = "list", !.labels = <<Bug>>,
                       !.issue_title = "present", !.issue_body = ISSUE_BODY_CAP]
    [] kind = "release" ->
         [Blank EXCEPT !.action = "opened", !.repository = "named", !.sender = "login",
                       !.release = "map", !.rel_draft = "false", !.rel_tag = "present",
                       !.rel_prerelease = "false", !.rel_name = "present",
                       !.rel_body = RELEASE_BODY_CAP]
    [] OTHER -> Blank

Actions == {"absent", "opened", "closed", "nonstr"}
Repositories == {"absent", "nonmap", "named"}
Senders == {"absent", "nonmap", "login"}

PullRequestData ==
  { [Blank EXCEPT !.action = a, !.repository = r, !.sender = s, !.pull_request = "map",
                  !.pr_draft = d, !.pr_title = t, !.pr_body = b,
                  !.pr_head = h, !.pr_base = g] :
      a \in Actions, r \in Repositories, s \in Senders, d \in Flag3,
      t \in {"absent", "present"}, b \in {0, PR_BODY_CAP, PR_BODY_CAP + 1},
      h \in Opt3, g \in Opt3 }
  \cup { [Blank EXCEPT !.action = a, !.repository = r, !.sender = s, !.pull_request = p] :
      a \in Actions, r \in Repositories, s \in Senders, p \in {"absent", "nonmap"} }

PushData ==
  { [Blank EXCEPT !.repository = r, !.sender = s, !.ref_kind = "str", !.ref = f,
                  !.commits_kind = "list", !.commits = c] :
      r \in Repositories, s \in Senders, f \in Refs,
      c \in SeqsUpTo(CommitEntries, MaxCommits) }
  \cup { [Blank EXCEPT !.repository = r, !.sender = s, !.ref_kind = k,
                  !.commits_kind = "list", !.commits = c] :
      r \in Repositories, s \in Senders, k \in {"absent", "nonstr"},
      c \in SeqsUpTo(CommitEntries, MaxCommits) }
  \cup { [Blank EXCEPT !.repository = r, !.sender = s, !.ref_kind = "str", !.ref = f,
                  !.commits_kind = k] :
      r \in Repositories, s \in Senders, f \in Refs, k \in {"absent", "nonlist"} }

IssueData ==
  { [Blank EXCEPT !.action = a, !.repository = r, !.sender = s, !.issue = "map",
                  !.labels_kind = "list", !.labels = l, !.issue_pr = p,
                  !.issue_title = t, !.issue_body = b] :
      a \in Actions, r \in Repositories, s \in Senders,
      l \in SeqsUpTo(LabelEntries, MaxLabels), p \in BOOLEAN,
      t \in {"absent", "present"}, b \in {0, ISSUE_BODY_CAP, ISSUE_BODY_CAP + 1} }
  \cup { [Blank EXCEPT !.action = a, !.repository = r, !.sender = s, !.issue = "map",
                  !.labels_kind = k, !.issue_pr = p, !.issue_title = t] :
      a \in Actions, r \in Repositories, s \in Senders, k \in {"absent", "nonlist"},
      p \in BOOLEAN, t \in {"absent", "present"} }
  \cup { [Blank EXCEPT !.action = a, !.repository = r, !.sender = s, !.issue = i] :
      a \in Actions, r \in Repositories, s \in Senders, i \in {"absent", "nonmap"} }

ReleaseData ==
  { [Blank EXCEPT !.action = "opened", !.repository = r, !.sender = "login",
                  !.release = "map", !.rel_draft = d, !.rel_tag = t,
                  !.rel_prerelease = p, !.rel_name = n, !.rel_body = b] :
      r \in Repositories, d \in Flag3, t \in {"absent", "present"}, p \in Flag3,
      n \in {"absent", "present"},
      b \in {0, RELEASE_BODY_CAP, RELEASE_BODY_CAP + 1} }
  \cup { [Blank EXCEPT !.action = "opened", !.repository = r, !.sender = "login",
                  !.release = x] :
      r \in Repositories, x \in {"absent", "nonmap"} }

\* the number of fields in which payload d differs from payload c
Weight(d, c) == Cardinality({f \in DOMAIN c : d[f] # c[f]})

\* parsed JSON values that are not a map with keys: {} ; a truthy non-dict
\* (a list, a string, a number); a falsy non-dict (null, [], 0, "")
ShapeData == {[Blank EXCEPT !.shape = s] : s \in {"emptymap", "nonmap", "falsy"}}

KindData(kind) ==
  CASE kind = "pull_request" -> PullRequestData
    [] kind = "push" -> PushData
    [] kind = "issues" -> IssueData
    [] kind = "release" -> ReleaseData
    [] OTHER -> {}

\* the payloads sent with an event of the given kind
Payloads(kind) ==
  ShapeData \cup {Blank}
    \cup {d \in KindData(kind) : Weight(d, Canonical(kind)) <= MaxDeviations}

IsDict(data) == data.shape \in {"map", "emptymap"}
\* Python truth value of the parsed body
DataTruthy(data) == data.shape \in {"map", "nonmap"}

----------------------------------------------------------------------------
(* Messages *)

NoDescription == [len |-> 0, cut |-> FALSE]
NoEmbed == [title |-> << >>, description |-> NoDescription, fields |-> << >>,
            footer |-> << >>]

\* the dict a formatter returns: keys is a subset of {"embed", "content"}
EmptyMessage == [keys |-> {}, embed |-> NoEmbed, content |-> << >>]
EmbedMessage(embed) == [keys |-> {"embed"}, embed |-> embed, content |-> << >>]
ContentMessage(content) == [keys |-> {"content"}, embed |-> NoEmbed, content |-> content]

\* the outcome of a formatter call
Return(message) == [raised |-> FALSE, message |-> message]
Raise == [raised |-> TRUE, message |-> EmptyMessage]

\* repo.get("full_name") and sender.get("login", default), as text
FullName(data) == IF data.repository = "named" THEN <<"owner/repo">> ELSE None
Login(data, default) == IF data.sender = "login" THEN <<"octocat">> ELSE default

\* .get(action, default) on the emoji tables
PrEmoji(action) ==
  CASE action = "opened" -> "E:opened" [] action = "closed" -> "E:closed"
    [] OTHER -> "E:opened"
IssueEmoji(action) ==
  CASE action = "opened" -> "E:alarm" [] action = "closed" -> "E:check"
    [] OTHER -> "E:alarm"

----------------------------------------------------------------------------
(* Formatters *)

format_pull_request_nodraft(data) ==
  IF ~IsDict(data) THEN Raise
  ELSE IF data.pull_request = "nonmap" THEN Raise
  ELSE IF data.pr_title # "present" THEN Return(EmptyMessage)
  ELSE IF data.repository = "nonmap" THEN Raise
  ELSE IF data.repository # "named" THEN Return(EmptyMessage)
  ELSE IF data.action = "nonstr" THEN Raise
  ELSE IF data.pr_head = "nonmap" \/ data.pr_base = "nonmap" THEN Raise
  ELSE IF data.sender = "nonmap" THEN Raise
  ELSE Return(EmbedMessage(
         [title |-> <<PrEmoji(data.action), " PR ", Title(data.action), ": ", "PR title">>,
          description |-> Truncate(data.pr_body, PR_BODY_CAP),
          fields |-> << <<"Repository", FullName(data)>>,
                        <<"Branch", <<"'", data.pr_head, "' -> '", data.pr_base, "'">> >>,
                        <<"Author", Login(data, <<"unknown">>)>> >>,
          footer |-> <<"PR #", "1">>]))

format_pull_request(data) ==
  IF ~IsDict(data) THEN Raise
  ELSE IF data.pull_request = "nonmap" THEN Raise
  \* Skip draft PRs
  ELSE IF data.pr_draft = "true" THEN Return(EmptyMessage)
  \* Defensive checks for required fields
  ELSE IF data.pr_title # "present" THEN Return(EmptyMessage)
  ELSE IF data.repository = "nonmap" THEN Raise
  ELSE IF data.repository # "named" THEN Return(EmptyMessage)
  ELSE IF data.action = "nonstr" THEN Raise
  ELSE IF data.pr_head = "nonmap" \/ data.pr_base = "nonmap" THEN Raise
  ELSE IF data.sender = "nonmap" THEN Raise
  ELSE Return(EmbedMessage(
         [title |-> <<PrEmoji(data.action), " PR ", Title(data.action), ": ", "PR title">>,
          description |-> Truncate(data.pr_body, PR_BODY_CAP),
          fields |-> << <<"Repository", FullName(data)>>,
                        <<"Branch", <<"'", data.pr_head, "' -> '", data.pr_base, "'">> >>,
                        <<"Author", Login(data, <<"unknown">>)>> >>,
          footer |-> <<"PR #", "1">>]))

\* data.get("ref", "").replace("refs/heads/", "")
BranchOf(data) == Replace(data.ref, "refs/heads/")

format_push(data) ==
  IF ~IsDict(data) THEN Raise
  ELSE IF data.ref_kind = "nonstr" THEN Raise
  ELSE IF data.commits_kind = "absent" \/ (data.commits_kind = "list" /\ data.commits = << >>)
       THEN Return(EmptyMessage)
  ELSE IF data.commits_kind = "nonlist" THEN Raise
  \* latest = commits[0]; latest.get("message", "").split("\n")[0]
  ELSE IF Head(data.commits) # "ok" THEN Raise
  ELSE IF data.repository = "nonmap" \/ data.sender = "nonmap" THEN Raise
  ELSE IF Len(data.commits) = 1
       THEN Return(ContentMessage(
              <<"E:hammer", " **">> \o Login(data, None) \o <<"** pushed to '">>
                \o BranchOf(data) \o <<"' in '">> \o FullName(data)
                \o <<"': [", "first line", "](", "commit url", ")">>))
       ELSE Return(ContentMessage(
              <<"E:hammer", " **">> \o Login(data, None) \o <<"** pushed ">>
                \o <<ToString(Len(data.commits))>> \o <<" commits to '">>
                \o BranchOf(data) \o <<"' in '">> \o FullName(data)
                \o <<"' (latest: ", "first line", ")">>))

\* [l["name"] for l in issue.get("labels", [])] raises on an entry without name
LabelNamesRaise(data) ==
  \/ data.labels_kind = "nonlist"
  \/ \E i \in 1..Len(data.labels) : data.labels[i] = NoName

format_issue(data) ==
  IF ~IsDict(data) THEN Raise
  ELSE IF data.issue = "nonmap" THEN Raise
  ELSE IF LabelNamesRaise(data) THEN Raise
  \* Skip pull request issues
  ELSE IF data.issue_pr THEN Return(EmptyMessage)
  \* Defensive checks for required fields
  ELSE IF data.issue_title # "present" THEN Return(EmptyMessage)
  ELSE IF data.repository = "nonmap" THEN Raise
  ELSE IF data.repository # "named" THEN Return(EmptyMessage)
  ELSE IF data.action = "nonstr" THEN Raise
  ELSE IF data.sender = "nonmap" THEN Raise
  ELSE Return(EmbedMessage(
         [title |-> <<IssueEmoji(data.action), " Issue ", Title(data.action), ": ",
                      "issue title">>,
          description |-> Truncate(data.issue_body, ISSUE_BODY_CAP),
          fields |-> << <<"Repository", FullName(data)>>,
                        <<"Reporter", Login(data, <<"unknown">>)>> >>
                     \o (IF data.labels # << >>
                         THEN << <<"Labels", Join(data.labels)>> >> ELSE << >>),
          footer |-> <<"Issue #", "1">>]))

format_release(data) ==
  IF ~IsDict(data) THEN Raise
  ELSE IF data.release = "nonmap" THEN Raise
  \* Skip draft releases
  ELSE IF data.rel_draft = "true" THEN Return(EmptyMessage)
  \* Defensive check for required fields
  ELSE IF data.rel_tag # "present" THEN Return(EmptyMessage)
  ELSE IF data.repository = "nonmap" THEN Raise
  ELSE IF data.repository # "named" THEN Return(EmptyMessage)
  ELSE IF data.rel_prerelease = "true"
       THEN Return(ContentMessage(
              <<"E:party", " **Pre-Release Available!** [", "v1", "](", "release url",
                ") is out now!">>))
  ELSE Return(EmbedMessage(
         [title |-> <<"E:rocket", " New Release: ",
                      IF data.rel_name = "present" THEN "release name" ELSE "v1">>,
          description |-> Truncate(data.rel_body, RELEASE_BODY_CAP),
          fields |-> << <<"Tag", <<"v1">> >>, <<"Repository", FullName(data)>> >>,
          footer |-> <<"Release Notes">>]))

Formatters == {"pull_request", "push", "issues", "release"}

\* get_formatter_for_event(event_type)(data)
RunFormatter(event_type, data) ==
  CASE event_type = "pull_request" -> format_pull_request(data)
    [] event_type = "push" -> format_push(data)
    [] event_type = "issues" -> format_issue(data)
    [] event_type = "release" -> format_release(data)

----------------------------------------------------------------------------
(* Routing and delivery *)

\* what requests.post can end in: a response with a status code, or a
\* requests.exceptions.RequestException (connection error, timeout)
HttpOutcomes ==
  {[fault |-> "none", status |-> st] : st \in {204, 304, 404, 500}}
    \cup {[fault |-> f, status |-> 0] : f \in {"connection", "timeout"}}

\* response.raise_for_status() raises HTTPError for 4xx and 5xx
raise_for_status(status) == 400 <= status /\ status < 600

Is2xx(http) == http.fault = "none" /\ 200 <= http.status /\ http.status < 300

\* the WEBHOOK_CONFIG entry get_webhook_for_event reads for an event: "raise"
\* when reading the payload raises, "none" when the kind has no channel
webhook_var(event_type, data) ==
  \* Pull requests and issues -> dev channel
  IF event_type \in {"pull_request", "issues"} THEN WEBHOOK_CONFIG.dev
  \* Push to main -> alerts channel
  ELSE IF event_type = "push"
  THEN IF ~IsDict(data) \/ data.ref_kind = "nonstr" THEN "raise"
       ELSE IF BranchOf(data) = <<"main">> THEN WEBHOOK_CONFIG.alerts
       ELSE WEBHOOK_CONFIG.dev
  \* Releases: pre-releases -> dev, main releases -> announcements
  ELSE IF event_type = "release"
  THEN IF ~IsDict(data) \/ data.release = "nonmap" THEN "raise"
       ELSE IF data.rel_prerelease = "true" THEN WEBHOOK_CONFIG.dev
       ELSE WEBHOOK_CONFIG.announcements
  ELSE "none"

get_webhook_for_event(event_type, data, e) ==
  LET var == webhook_var(event_type, data)
  IN  IF var = "raise" THEN [raised |-> TRUE, url |-> None]
      ELSE IF var = "none" THEN [raised |-> FALSE, url |-> None]
      ELSE [raised |-> FALSE, url |-> environ_get(e, var)]

\* the JSON body send_discord_message builds
PostBody(message) ==
  [keys |-> (IF "embed" \in message.keys THEN {"embeds"} ELSE {})
              \cup (IF "content" \in message.keys /\ message.content # << >>
                    THEN {"content"} ELSE {}),
   embeds |-> IF "embed" \in message.keys THEN <<message.embed>> ELSE << >>,
   content |-> IF "content" \in message.keys THEN message.content ELSE << >>]

\* returns whether the POST succeeded, and the POSTs it made
send_discord_message(webhook_url, message, http) ==
  IF ~Truthy(webhook_url) THEN [ok |-> FALSE, calls |-> << >>]
  ELSE [ok |-> http.fault = "none" /\ ~raise_for_status(http.status),
        calls |-> << [url |-> webhook_url, json |-> PostBody(message),
                      response |-> http] >>]

\* the outcome of one dispatch cycle: stage names the statement it ended at
Cycle(stage, raised, count, message, calls) ==
  [stage |-> stage, raised |-> raised, count |-> count, message |-> message,
   calls |-> calls]

NoCycle == Cycle("none", FALSE, 0, EmptyMessage, << >>)

\* process_event without the test of the formatter's result
process_event_nocheck(event_type, data, e, http) ==
  \* Ignore ping events
  IF event_type = "ping" THEN Cycle("ping", FALSE, 0, EmptyMessage, << >>)
  ELSE IF event_type \notin Formatters
  THEN Cycle("nohandler", FALSE, 0, EmptyMessage, << >>)
  ELSE
    LET formatted == RunFormatter(event_type, data)
        message == formatted.message
        webhook == get_webhook_for_event(event_type, data, e)
        sent == send_discord_message(webhook.url, message, http)
    IN  IF formatted.raised THEN Cycle("format", TRUE, 0, EmptyMessage, << >>)
        ELSE IF webhook.raised THEN Cycle("resolve", TRUE, 0, message, << >>)
        ELSE IF ~Truthy(webhook.url) THEN Cycle("nowebhook", FALSE, 0, message, << >>)
        ELSE Cycle("sent", FALSE, IF sent.ok THEN 1 ELSE 0, message, sent.calls)

process_event(event_type, data, e, http) ==
  \* Ignore ping events
  IF event_type = "ping" THEN Cycle("ping", FALSE, 0, EmptyMessage, << >>)
  ELSE IF event_type \notin Formatters
  THEN Cycle("nohandler", FALSE, 0, EmptyMessage, << >>)
  ELSE
    LET formatted == RunFormatter(event_type, data)
        message == formatted.message
        webhook == get_webhook_for_event(event_type, data, e)
        sent == send_discord_message(webhook.url, message, http)
    IN  IF formatted.raised THEN Cycle("format", TRUE, 0, EmptyMessage, << >>)
        ELSE IF message.keys = {} THEN Cycle("nomessage", FALSE, 0, message, << >>)
        ELSE IF webhook.raised THEN Cycle("resolve", TRUE, 0, message, << >>)
        ELSE IF ~Truthy(webhook.url) THEN Cycle("nowebhook", FALSE, 0, message, << >>)
        ELSE Cycle("sent", FALSE, IF sent.ok THEN 1 ELSE 0, message, sent.calls)

----------------------------------------------------------------------------
(* Entry points *)

NoHeader == "<no header>"
Headers == EventKinds \cup {NoHeader, ""}

Response(status, key, text, ran, cycle) ==
  [status |-> status, key |-> key, text |-> text, ran |-> ran, cycle |-> cycle]

NoResponse == Response(0, "", << >>, FALSE, NoCycle)

\* POST /webhook.  A request without a JSON body has request.json None (or is
\* refused by Flask itself): it is answered 400 either way.  An exception
\* that leaves the view is answered by Flask through errorhandler(500).
webhook(header, body, data, e, http) ==
  IF header \in {NoHeader, ""}
  THEN Response(400, "error", <<"Missing X-GitHub-Event header">>, FALSE, NoCycle)
  ELSE IF body = "missing" \/ ~DataTruthy(data)
  THEN Response(400, "error", <<"No data received">>, FALSE, NoCycle)
  ELSE IF header = "ping"
  THEN Response(200, "message", <<"Pong!">>, FALSE, NoCycle)
  ELSE
    LET triggered_actions == process_event(header, data, e, http)
    IN  IF triggered_actions.raised
        THEN Response(500, "error", <<"Internal server error">>, TRUE, triggered_actions)
        ELSE Response(200, "message",
                      <<"Processed event. Triggered ", ToString(triggered_actions.count),
                        " actions.">>, TRUE, triggered_actions)

\* the one-shot branch of __main__; status is the exit status of the process
main_oneshot(event_name, event_path, file, data, e, http) ==
  IF event_path \in {NoHeader, ""} \/ event_name \in {NoHeader, ""}
  THEN Response(1, "exit", <<"Missing GITHUB_EVENT_PATH or GITHUB_EVENT_NAME">>,
                FALSE, NoCycle)
  ELSE IF file = "missing"
  THEN Response(1, "exit", <<"Event file not found">>, FALSE, NoCycle)
  ELSE IF file = "unparseable"
  THEN Response(1, "exit", <<"Failed to parse event JSON">>, FALSE, NoCycle)
  ELSE IF file = "unreadable"
  THEN Response(1, "exit", <<"Failed to load event data">>, FALSE, NoCycle)
  ELSE
    LET count == process_event(event_name, data, e, http)
    IN  IF count.raised
        THEN Response(1, "exit", <<"Traceback">>, TRUE, count)
        ELSE Response(0, "exit", <<"Processed event. Triggered ", ToString(count.count),
                                   " actions.">>, TRUE, count)

----------------------------------------------------------------------------
(* Rules *)

\* str.lower(), letter by letter
LowerChar(c) ==
  CASE c = "B" -> "b" [] c = "U" -> "u" [] c = "G" -> "g" [] c = "F" -> "f"
    [] OTHER -> c
Lower(name) == [i \in 1..Len(name) |-> LowerChar(name[i])]

\* name in [l.lower() for l in names]
RECURSIVE LowerIn(_, _)
LowerIn(name, names) ==
  IF names = << >> THEN FALSE
  ELSE IF Head(names) # NoName /\ Lower(Head(names)) = name THEN TRUE
  ELSE LowerIn(name, Tail(names))

\* any(l.lower() in wanted for l in labels)
RECURSIVE AnyLabel(_, _)
AnyLabel(labels, wanted) ==
  IF labels = << >> THEN FALSE
  ELSE IF Head(labels) # NoName /\ LowerIn(Lower(Head(labels)), wanted) THEN TRUE
  ELSE AnyLabel(Tail(labels), wanted)

\* check_filters with the label names compared as written
check_filters_exact(filters, data, event_type) ==
  /\ "action" \in filters.keys => data.action = filters.action
  /\ "is_draft" \in filters.keys =>
       data.pr_draft = (IF filters.is_draft THEN "true" ELSE "false")
  /\ "labels_include" \in filters.keys =>
       \E i \in 1..Len(data.labels), j \in 1..Len(filters.labels_include) :
         data.labels[i] = filters.labels_include[j]

check_filters(filters, data, event_type) ==
  /\ "action" \in filters.keys => data.action = filters.action
  /\ "is_draft" \in filters.keys =>
       data.pr_draft = (IF filters.is_draft THEN "true" ELSE "false")
  /\ "labels_include" \in filters.keys => AnyLabel(data.labels, filters.labels_include)

----------------------------------------------------------------------------
(* The process *)

\* each channel variable is unset, empty or a URL; the two variables of the
\* tests are set as the tests set them (main.py never reads them)
Environs ==
  {e \in [EnvNames -> {None, << >>} \cup {UrlOf(n) : n \in EnvNames}
                        \cup {TestEnviron.TEST_WEBHOOK_1, TestEnviron.TEST_WEBHOOK_2}] :
     /\ \A n \in {WEBHOOK_CONFIG.dev, WEBHOOK_CONFIG.alerts, WEBHOOK_CONFIG.announcements} :
          e[n] \in {None, << >>, UrlOf(n)}
     /\ e["TEST_WEBHOOK_1"] = TestEnviron.TEST_WEBHOOK_1
     /\ e["TEST_WEBHOOK_2"] = TestEnviron.TEST_WEBHOOK_2}

Request(event, body, path, data) ==
  [event |-> event, body |-> body, path |-> path, data |-> data]

NoRequest == Request(NoHeader, "missing", NoHeader, Blank)

NoFilterInput == [filters |-> CONFIG[1].filters, data |-> Blank, event |-> "ping"]

Init ==
  /\ env \in Environs
  /\ mode \in {"server", "oneshot"}
  /\ pc = "idle"
  /\ req = NoRequest
  /\ res = NoResponse
  /\ fin = NoFilterInput
  /\ fout = FALSE

\* a POST /webhook request arrives
Receive ==
  /\ mode = "server" /\ pc = "idle"
  /\ \E header \in Headers :
       \/ req' = Request(header, "missing", NoHeader, Blank)
       \/ \E data \in Payloads(header) : req' = Request(header, "json", NoHeader, data)
  /\ pc' = "received"
  /\ UNCHANGED <<env, mode, res, fin, fout>>

\* the view function runs to its response
Webhook ==
  /\ mode = "server" /\ pc = "received"
  /\ \E http \in HttpOutcomes : res' = webhook(req.event, req.body, req.data, env, http)
  /\ pc' = "responded"
  /\ UNCHANGED <<env, mode, req, fin, fout>>

\* the response is sent; the server waits for the next request
Reply ==
  /\ mode = "server" /\ pc = "responded"
  /\ pc' = "idle"
  /\ req' = NoRequest
  /\ res' = NoResponse
  /\ UNCHANGED <<env, mode, fin, fout>>

\* the runner starts the process with GITHUB_ACTIONS=true; without a path
\* there is no file to speak of
Launch ==
  /\ mode = "oneshot" /\ pc = "idle"
  /\ \E name \in Headers :
       \/ \E path \in {NoHeader, ""} : req' = Request(name, "missing", path, Blank)
       \/ \E file \in {"missing", "unparseable", "unreadable"} :
            req' = Request(name, file, "event.json", Blank)
       \/ \E data \in Payloads(name) : req' = Request(name, "json", "event.json", data)
  /\ pc' = "started"
  /\ UNCHANGED <<env, mode, res, fin, fout>>

\* the one-shot branch runs to the exit of the process
Main ==
  /\ mode = "oneshot" /\ pc = "started"
  /\ \E http \in HttpOutcomes :
       res' = main_oneshot(req.event, req.path, req.body, req.data, env, http)
  /\ pc' = "exited"
  /\ UNCHANGED <<env, mode, req, fin, fout>>

Next == Receive \/ Webhook \/ Reply \/ Launch \/ Main

Spec == Init /\ [][Next]_vars

----------------------------------------------------------------------------
(* The filter evaluator on its own *)

FilterKeys == {"action", "is_draft", "labels_include"}
LabelNames == {Bug, BugUpper, Feature}

FilterSets ==
  { [keys |-> k,
     action |-> a, is_draft |-> d, labels_include |-> l] :
      k \in SUBSET FilterKeys, a \in {"opened", "closed"}, d \in BOOLEAN,
      l \in SeqsUpTo(LabelNames, MaxFilterLabels) }

\* filters whose values under absent keys are the defaults
NormalFilterSets ==
  {f \in FilterSets :
     /\ "action" \notin f.keys => f.action = "opened"
     /\ "is_draft" \notin f.keys => f.is_draft = FALSE
     /\ "labels_include" \notin f.keys => f.labels_include = << >>}

FilterData ==
  { [Blank EXCEPT !.action = a, !.pull_request = "map", !.pr_draft = d,
                  !.issue = "map", !.labels_kind = "list", !.labels = l] :
      a \in {"absent", "opened", "closed"}, d \in Flag3,
      l \in SeqsUpTo(LabelNames, MaxLabels) }

InitFilters ==
  /\ env = [n \in EnvNames |-> None]
  /\ mode = "filters"
  /\ pc = "idle"
  /\ req = NoRequest
  /\ res = NoResponse
  /\ fin \in {[filters |-> f, data |-> d, event |-> k] :
                f \in NormalFilterSets, d \in FilterData,
                k \in {"pull_request", "issues"}}
  /\ fout = FALSE

CheckFilters ==
  /\ mode = "filters" /\ pc = "idle"
  /\ fout' = check_filters(fin.filters, fin.data, fin.event)
  /\ pc' = "checked"
  /\ UNCHANGED <<env, mode, req, res, fin>>

NextFilters == CheckFilters

SpecFilters == InitFilters /\ [][NextFilters]_vars

----------------------------------------------------------------------------
(* Properties *)

\* the handler or the one-shot branch has run to its end
Done == pc \in {"responded", "exited"}

CallUrls(calls) == [i \in 1..Len(calls) |-> calls[i].url]

Range(f) == {f[i] : i \in DOMAIN f}

\* the request carried an event kind and a parsed JSON body
Parsed == req.event \notin {NoHeader, ""} /\ req.body = "json"

\* C1: the count a dispatch cycle returns is the number of its delivery calls
\* whose POST was answered 2xx; any other response, a network fault or a
\* timeout counts 0.
C1_CountIsDelivered2xx ==
  (Done /\ res.ran /\ ~res.cycle.raised) =>
    res.cycle.count =
      Cardinality({i \in 1..Len(res.cycle.calls) : Is2xx(res.cycle.calls[i].response)})

\* C2: a ping with any payload makes no delivery call and is answered 200
\* "Pong!"; in one-shot mode a ping counts 0.
C2_PingAcknowledged ==
  /\ (pc = "responded" /\ req.event = "ping" /\ req.body = "json") =>
       /\ res.status = 200 /\ res.key = "message" /\ res.text = <<"Pong!">>
       /\ res.cycle.calls = << >>
  /\ (pc = "exited" /\ req.event = "ping" /\ res.ran) =>
       res.cycle.count = 0 /\ res.cycle.calls = << >>

\* C3: for a payload that is a map, whatever its substructures, no fault
\* leaves the dispatch cycle: process_event returns a count.
C3_NoFaultLeavesCycle ==
  (Done /\ res.ran /\ IsDict(req.data)) => ~res.cycle.raised

\* C4: POST /webhook answers 400 exactly when the header or the JSON body is
\* missing, then without formatting or delivery; every other non-ping request
\* is answered 200 "Processed event. Triggered N actions." with N the count.
C4_WebhookStatus ==
  pc = "responded" =>
    LET missing == req.event \in {NoHeader, ""} \/ req.body = "missing"
    IN  /\ res.status = 400 <=> missing
        /\ res.status = 400 => ~res.ran /\ res.cycle.calls = << >>
        /\ (~missing /\ req.event # "ping") =>
             /\ res.status = 200
             /\ res.text = <<"Processed event. Triggered ", ToString(res.cycle.count),
                             " actions.">>

\* the URLs of the rules of the rule set that match the event, in order
RECURSIVE RuleUrls(_, _, _, _)
RuleUrls(rules, event, data, e) ==
  IF rules = << >> THEN << >>
  ELSE (IF Head(rules).event = event /\ check_filters(Head(rules).filters, data, event)
        THEN <<e[Head(rules).webhook_env]>> ELSE << >>)
         \o RuleUrls(Tail(rules), event, data, e)

\* C6: through POST /webhook the delivery attempts are exactly those of the
\* configured rules whose event kind and filters match, each to the URL of the
\* variable its action names.
C6_RoutedByRules ==
  (pc = "responded" /\ Parsed /\ req.event # "ping" /\ IsDict(req.data)) =>
    CallUrls(res.cycle.calls) = RuleUrls(CONFIG, req.event, req.data, env)

\* C10: one-shot mode exits non-zero before any formatting or delivery when
\* the event kind or path is absent or the file is missing or unparseable, and
\* otherwise runs one dispatch cycle and exits 0.
C10_OneShotExit ==
  pc = "exited" =>
    IF req.event \in {NoHeader, ""} \/ req.path \in {NoHeader, ""} \/ req.body # "json"
    THEN res.status # 0 /\ ~res.ran /\ res.cycle.calls = << >>
    ELSE res.ran /\ res.status = 0

\* C7: a pull_request event whose pull request is marked draft gets an empty
\* message from the PR formatter whatever its action and other fields, so the
\* cycle makes no delivery call and counts 0.
C7_DraftPullRequestSilent ==
  (Done /\ res.ran /\ req.event = "pull_request" /\ req.data.shape = "map"
     /\ req.data.pull_request = "map" /\ req.data.pr_draft = "true") =>
    /\ ~res.cycle.raised
    /\ res.cycle.message.keys = {}
    /\ res.cycle.calls = << >>
    /\ res.cycle.count = 0

C7_Witness ==
  /\ pc = "responded" /\ res.ran /\ req.event = "pull_request"
  /\ req.data.pr_draft = "true" /\ req.data.action = "closed"
  /\ req.data.pr_title = "present" /\ req.data.repository = "named"
  /\ env[WEBHOOK_CONFIG.dev] = UrlOf(WEBHOOK_CONFIG.dev)
  /\ res.cycle.count = 0

\* C8: when the formatter returns an empty message the cycle makes no delivery
\* call, counts 0 and does not fail; and every delivery call carries a body
\* with a non-empty content and/or a one-element embeds list.
C8_EmptyMessageNotDelivered ==
  (Done /\ res.ran /\ req.event \in Formatters) =>
    LET formatted == RunFormatter(req.event, req.data)
    IN  /\ (~formatted.raised /\ formatted.message.keys = {}) =>
             /\ res.cycle.calls = << >>
             /\ res.cycle.count = 0
             /\ ~res.cycle.raised
        /\ \A i \in 1..Len(res.cycle.calls) :
             LET json == res.cycle.calls[i].json
             IN  /\ json.keys # {}
                 /\ json.keys \subseteq {"content", "embeds"}
                 /\ "content" \in json.keys => json.content # << >>
                 /\ "embeds" \in json.keys => Len(json.embeds) = 1
                 /\ "content" \notin json.keys => json.content = << >>
                 /\ "embeds" \notin json.keys => json.embeds = << >>

C8_Witness ==
  /\ pc = "responded" /\ res.ran /\ req.event = "push"
  /\ req.data.commits_kind = "list" /\ req.data.commits = << >>
  /\ env[WEBHOOK_CONFIG.alerts] = UrlOf(WEBHOOK_CONFIG.alerts)
  /\ res.status = 200 /\ res.cycle.count = 0 /\ res.cycle.calls = << >>

\* the environment variable of the event's action is unset or empty
Unresolved(event, data, e) ==
  /\ event \in Formatters
  /\ webhook_var(event, data) \in EnvNames
  /\ e[webhook_var(event, data)] \in {None, << >>}

Urgent == <<"u", "r", "g">>
TestFiltersPr == [keys |-> {"action", "is_draft"}, action |-> "opened",
                  is_draft |-> FALSE, labels_include |-> << >>]
TestFiltersIssue == [keys |-> {"labels_include"}, action |-> "opened",
                     is_draft |-> FALSE, labels_include |-> <<Bug, Urgent>>]
TestPr(action, draft) ==
  [Blank EXCEPT !.action = action, !.pull_request = "map", !.pr_draft = draft]
TestIssue(labels) ==
  [Blank EXCEPT !.issue = "map", !.labels_kind = "list", !.labels = labels]

\* C5: check_filters is the conjunction of the filters present: action equal,
\* draft flag equal, and the label names meeting the filter's list when both
\* are lower-cased; the cases of the tests come out as the tests expect.
C5_FiltersConjunction ==
  /\ pc = "checked" =>
       fout =
         (/\ "action" \in fin.filters.keys => fin.data.action = fin.filters.action
          /\ "is_draft" \in fin.filters.keys =>
               /\ fin.data.pr_draft # "absent"
               /\ (fin.data.pr_draft = "true") = fin.filters.is_draft
          /\ "labels_include" \in fin.filters.keys =>
               {Lower(x) : x \in Range(fin.data.labels)}
                 \cap {Lower(y) : y \in Range(fin.filters.labels_include)} # {})
  /\ check_filters(TestFiltersPr, TestPr("opened", "false"), "pull_request")
  /\ ~check_filters(TestFiltersPr, TestPr("closed", "false"), "pull_request")
  /\ ~check_filters(TestFiltersPr, TestPr("opened", "true"), "pull_request")
  /\ check_filters(TestFiltersIssue, TestIssue(<<Bug, <<"o">> >>), "issues")
  /\ check_filters(TestFiltersIssue, TestIssue(<<Urgent>>), "issues")
  /\ ~check_filters(TestFiltersIssue, TestIssue(<<Feature>>), "issues")

C5_Witness ==
  /\ pc = "checked" /\ fout
  /\ fin.filters.keys = FilterKeys
  /\ fin.filters.labels_include = <<Bug>>
  /\ fin.data.labels = <<Feature, BugUpper>>
====
